---- MODULE Spec2Model ----
(***************************************************************************)
(* Review pipeline of the invoice agent: one Document Record in the        *)
(* backend table (ingest, resolve-review, payment patch) and the invoice   *)
(* detail page that renders its review questions and posts the answers.    *)
(* The ingestion pipeline runs as a task that may be delivered again.      *)
(* The dashboard page fetches the invoice list and derives the recurring   *)
(* expenses from it. The invoices list page filters and pages the same     *)
(* list and edits the payment flag; the upload page validates the chosen   *)
(* files and sends them.                                                   *)
(* Money is counted in fils (1/100 AED), so every amount is an integer.    *)
(***************************************************************************)
EXTENDS Integers, Sequences, FiniteSets, TLC

VARIABLES
    db,     \* the invoices table of the backend
    page,   \* the state of each open invoice detail page
    task,   \* the extraction task of the document, as the task runner holds it
    dash,   \* the state of the dashboard page, when it is open
    list,   \* the state of the invoices list page, when it is open
    upload  \* the state of the upload page, when it is open

vars == <<db, page, task, dash, list, upload>>

\* what the review pages and the record endpoints leave alone
offPage == <<task, dash, list, upload>>

-----------------------------------------------------------------------------
(* Bounds of the model *)

\* how many of the sample amounts the extractor and the reviewer may use
NAmounts == 2

\* how many entries of the closed category list a select question offers
NCategories == 2

\* how many times the task runner delivers one extraction task
MaxDeliveries == 2

\* how many rows of the invoices table the dashboard is given at most
MaxInvoices == 4

\* how many rows of the invoices table the invoices list is given at most
NListRows == 28

\* how many payment-flag updates are made on one opened invoices list
MaxPaymentEdits == 1

\* the last page the reader of the invoices list goes to
MaxPage == 4

\* how many files are chosen on one opened upload page
MaxFiles == 3

AmountSamples == <<100000, 10, 0, 20000, 1060, 31, 105>>

AmountVals == {AmountSamples[i] : i \in 1..NAmounts}

-----------------------------------------------------------------------------
(* JSON values on the wire: a type tag with one payload slot per type *)

VUndef == [t |-> "undefined", n |-> 0, s |-> "", b |-> FALSE]

VNull == [t |-> "null", n |-> 0, s |-> "", b |-> FALSE]

VNum(x) == [t |-> "number", n |-> x, s |-> "", b |-> FALSE]

VStr(x) == [t |-> "string", n |-> 0, s |-> x, b |-> FALSE]

VBool(x) == [t |-> "boolean", n |-> 0, s |-> "", b |-> x]

\* JavaScript String(v) for the values a select option carries
StringOf(v) ==
    IF v.t = "boolean" THEN (IF v.b THEN "true" ELSE "false")
    ELSE IF v.t = "string" THEN v.s
    ELSE v.t

\* typed columns of the record: text columns use NoText, decimals NoAmount,
\* tri-state flags "true" / "false" / "null"
NoText == "<null>"

NoAmount == 0 - 1

FieldNames == {"vendor", "amount", "date", "vat_inclusive", "category"}

NoAnswers == [f \in FieldNames |-> VUndef]

Keys(a) == {f \in FieldNames : a[f].t # "undefined"}

-----------------------------------------------------------------------------
(* Configuration surface *)

\* VAT rate 0.05 as a percentage
VatRatePct == 5

DEFAULT_CURRENCY == "AED"

UAE_CATEGORIES ==
    << "Occupancy & Facilities", "Telecom & Connectivity", "Travel & Transport",
       "IT, Software & Cloud", "Professional, Banking & Insurance",
       "Office Supplies", "Marketing & Advertising", "Other Business Expenses" >>

CategoryOptions == SubSeq(UAE_CATEGORIES, 1, NCategories)

-----------------------------------------------------------------------------
(* VAT arithmetic: half-up rounding to a whole number of fils *)

RoundHalfUp(num, den) == (2 * num + den) \div (2 * den)

\* variant: the net amount is truncated instead of rounded half-up
NetOfGross_Truncates(g) == (g * 100) \div (100 + VatRatePct)

\* net = round(gross / (1 + rate), 2)
NetOfGross(g) == RoundHalfUp(g * 100, 100 + VatRatePct)

\* variant: the tax is truncated instead of rounded half-up
TaxOfNet_Truncates(a) == (a * VatRatePct) \div 100

\* tax = round(net * rate, 2)
TaxOfNet(a) == RoundHalfUp(a * VatRatePct, 100)

Abs(x) == IF x < 0 THEN 0 - x ELSE x

\* tax agrees with amount read as a net amount, within 0.01
ConsistentNet(amount, tax) == Abs(tax - TaxOfNet(amount)) <= 1

\* tax agrees with amount read as a gross amount, within 0.01
ConsistentGross(amount, tax) == Abs(tax - (amount - NetOfGross(amount))) <= 1

-----------------------------------------------------------------------------
(* Extractor output and Normalizer (4.1) *)

ValidDates == {"2024-03-01"}

\* vendor rule table: first matching rule wins, unmatched names pass through
VendorRules == << [match |-> "acme trading llc", canonical |-> "Acme"] >>

\* category rule table keyed by canonical vendor
CategoryRules == << [vendor |-> "Acme", category |-> "Office Supplies"] >>

RECURSIVE FirstVendorRule(_, _)
FirstVendorRule(name, i) ==
    IF i > Len(VendorRules) THEN name
    ELSE IF VendorRules[i].match = name THEN VendorRules[i].canonical
    ELSE FirstVendorRule(name, i + 1)

RECURSIVE FirstCategoryRule(_, _)
FirstCategoryRule(vendor, i) ==
    IF i > Len(CategoryRules) THEN NoText
    ELSE IF CategoryRules[i].vendor = vendor THEN CategoryRules[i].category
    ELSE FirstCategoryRule(vendor, i + 1)

ParseAmount(v) == IF v.t = "number" /\ v.n >= 0 THEN v.n ELSE NoAmount

ParseDate(v) == IF v.t = "string" /\ v.s \in ValidDates THEN v.s ELSE NoText

ParseFlag(v) == IF v.t = "boolean" THEN (IF v.b THEN "true" ELSE "false") ELSE "null"

\* the minimal scaffold used when the Extractor is unavailable
ScaffoldRaw ==
    [ vendor |-> VNull, amount |-> VNull, date |-> VNull, tax_amount |-> VNull,
      vat_inclusive |-> VNull, is_paid |-> VNull, low_confidence |-> {} ]

Normalizer(raw) ==
    LET vendor == IF raw.vendor.t = "string" THEN FirstVendorRule(raw.vendor.s, 1) ELSE NoText
    IN  [ vendor |-> vendor,
          amount |-> ParseAmount(raw.amount),
          date |-> ParseDate(raw.date),
          currency |-> DEFAULT_CURRENCY,
          tax_amount |-> ParseAmount(raw.tax_amount),
          vat_inclusive |-> ParseFlag(raw.vat_inclusive),
          category |-> FirstCategoryRule(vendor, 1),
          is_paid |-> ParseFlag(raw.is_paid),
          low_confidence |-> raw.low_confidence,
          status |-> "needs_review",
          review_reason |-> << >>,
          review_questions |-> << >> ]

-----------------------------------------------------------------------------
(* VAT Resolver (4.2): the four rules over (amount, tax_amount, vat_inclusive), *)
(* tried in the order they are listed; a triple no rule covers cannot be       *)
(* reconciled and is a failure of the resolver                                 *)

\* variant: rule 3 takes the tax as rate x gross instead of gross - net
VATResolver_TaxOnGross(d) ==
    IF d.amount # NoAmount /\ d.tax_amount # NoAmount
       /\ (ConsistentNet(d.amount, d.tax_amount) \/ ConsistentGross(d.amount, d.tax_amount))
    THEN [ ok |-> TRUE,
           draft |-> [d EXCEPT !.vat_inclusive =
                        IF d.vat_inclusive # "null" THEN d.vat_inclusive
                        ELSE IF ConsistentNet(d.amount, d.tax_amount) THEN "false"
                        ELSE "true"] ]
    ELSE IF d.amount # NoAmount /\ d.tax_amount = NoAmount /\ d.vat_inclusive = "false"
    THEN [ ok |-> TRUE, draft |-> [d EXCEPT !.tax_amount = TaxOfNet(d.amount)] ]
    ELSE IF d.amount # NoAmount /\ d.vat_inclusive = "true"
    THEN [ ok |-> TRUE,
           draft |-> [d EXCEPT !.amount = NetOfGross(d.amount),
                               !.tax_amount = TaxOfNet(d.amount)] ]
    ELSE IF d.tax_amount = NoAmount /\ d.vat_inclusive = "null"
    THEN [ ok |-> TRUE, draft |-> d ]
    ELSE [ ok |-> FALSE, draft |-> d ]

\* variant: an amount with no tax figure and no VAT status is taken as net
VATResolver_DefaultsToNet(d) ==
    IF d.amount # NoAmount /\ d.tax_amount # NoAmount
       /\ (ConsistentNet(d.amount, d.tax_amount) \/ ConsistentGross(d.amount, d.tax_amount))
    THEN [ ok |-> TRUE,
           draft |-> [d EXCEPT !.vat_inclusive =
                        IF d.vat_inclusive # "null" THEN d.vat_inclusive
                        ELSE IF ConsistentNet(d.amount, d.tax_amount) THEN "false"
                        ELSE "true"] ]
    ELSE IF d.amount # NoAmount /\ d.tax_amount = NoAmount /\ d.vat_inclusive # "true"
    THEN [ ok |-> TRUE, draft |-> [d EXCEPT !.tax_amount = TaxOfNet(d.amount),
                                            !.vat_inclusive = "false"] ]
    ELSE IF d.amount # NoAmount /\ d.vat_inclusive = "true"
    THEN [ ok |-> TRUE,
           draft |-> [d EXCEPT !.amount = NetOfGross(d.amount),
                               !.tax_amount = d.amount - NetOfGross(d.amount)] ]
    ELSE IF d.tax_amount = NoAmount /\ d.vat_inclusive = "null"
    THEN [ ok |-> TRUE, draft |-> d ]
    ELSE [ ok |-> FALSE, draft |-> d ]

VATResolver(d) ==
    IF d.amount # NoAmount /\ d.tax_amount # NoAmount
       /\ (ConsistentNet(d.amount, d.tax_amount) \/ ConsistentGross(d.amount, d.tax_amount))
    THEN \* rule 1: leave as-is, settle the flag if it was null
         [ ok |-> TRUE,
           draft |-> [d EXCEPT !.vat_inclusive =
                        IF d.vat_inclusive # "null" THEN d.vat_inclusive
                        ELSE IF ConsistentNet(d.amount, d.tax_amount) THEN "false"
                        ELSE "true"] ]
    ELSE IF d.amount # NoAmount /\ d.tax_amount = NoAmount /\ d.vat_inclusive = "false"
    THEN \* rule 2: amount is net
         [ ok |-> TRUE, draft |-> [d EXCEPT !.tax_amount = TaxOfNet(d.amount)] ]
    ELSE IF d.amount # NoAmount /\ d.vat_inclusive = "true"
    THEN \* rule 3: amount is gross and is reassigned to net
         [ ok |-> TRUE,
           draft |-> [d EXCEPT !.amount = NetOfGross(d.amount),
                               !.tax_amount = d.amount - NetOfGross(d.amount)] ]
    ELSE IF d.tax_amount = NoAmount /\ d.vat_inclusive = "null"
    THEN \* rule 4: ambiguous, do not guess
         [ ok |-> TRUE, draft |-> d ]
    ELSE [ ok |-> FALSE, draft |-> d ]

-----------------------------------------------------------------------------
(* Validator (4.3) and Review Question Generator (4.4) *)

VATAmbiguous(d) == d.tax_amount = NoAmount /\ d.vat_inclusive = "null"

FieldValue(d, f) ==
    IF f = "amount" THEN (IF d.amount = NoAmount THEN VNull ELSE VNum(d.amount))
    ELSE IF f = "vendor" THEN (IF d.vendor = NoText THEN VNull ELSE VStr(d.vendor))
    ELSE IF f = "date" THEN (IF d.date = NoText THEN VNull ELSE VStr(d.date))
    ELSE IF f = "category" THEN (IF d.category = NoText THEN VNull ELSE VStr(d.category))
    ELSE (IF d.vat_inclusive = "null" THEN VNull ELSE VBool(d.vat_inclusive = "true"))

Missing(d, f) == FieldValue(d, f).t = "null"

If(c, s) == IF c THEN s ELSE << >>

\* variant: the first deficiency found ends the validation
Deficiencies_ShortCircuits(d) ==
    IF Missing(d, "vendor") THEN << [kind |-> "required", field |-> "vendor"] >>
    ELSE IF Missing(d, "amount") THEN << [kind |-> "required", field |-> "amount"] >>
    ELSE IF Missing(d, "date") THEN << [kind |-> "required", field |-> "date"] >>
    ELSE IF VATAmbiguous(d) THEN << [kind |-> "vat", field |-> "vat_inclusive"] >>
    ELSE IF "vendor" \in d.low_confidence
    THEN << [kind |-> "low_confidence", field |-> "vendor"] >>
    ELSE IF "amount" \in d.low_confidence
    THEN << [kind |-> "low_confidence", field |-> "amount"] >>
    ELSE IF "date" \in d.low_confidence
    THEN << [kind |-> "low_confidence", field |-> "date"] >>
    ELSE IF Missing(d, "category") THEN << [kind |-> "category", field |-> "category"] >>
    ELSE << >>

\* deficiencies in priority order; none short-circuits the others
Deficiencies(d) ==
       If(Missing(d, "vendor"), << [kind |-> "required", field |-> "vendor"] >>)
    \o If(Missing(d, "amount"), << [kind |-> "required", field |-> "amount"] >>)
    \o If(Missing(d, "date"), << [kind |-> "required", field |-> "date"] >>)
    \o If(VATAmbiguous(d), << [kind |-> "vat", field |-> "vat_inclusive"] >>)
    \o If("vendor" \in d.low_confidence /\ ~Missing(d, "vendor"),
          << [kind |-> "low_confidence", field |-> "vendor"] >>)
    \o If("amount" \in d.low_confidence /\ ~Missing(d, "amount"),
          << [kind |-> "low_confidence", field |-> "amount"] >>)
    \o If("date" \in d.low_confidence /\ ~Missing(d, "date"),
          << [kind |-> "low_confidence", field |-> "date"] >>)
    \o If(Missing(d, "category"), << [kind |-> "category", field |-> "category"] >>)

RequiredInputType(f) ==
    IF f = "amount" THEN "number" ELSE IF f = "date" THEN "date" ELSE "text"

ReviewQuestionGenerator(def, d) ==
    IF def.kind = "required"
    THEN [ field_name |-> def.field, input_type |-> RequiredInputType(def.field),
           current_value |-> VNull, options |-> << >> ]
    ELSE IF def.kind = "vat"
    THEN [ field_name |-> "vat_inclusive", input_type |-> "select",
           current_value |-> VNull,
           options |-> << [value |-> VBool(TRUE), label |-> "VAT Inclusive"],
                          [value |-> VBool(FALSE), label |-> "VAT Exclusive"] >> ]
    ELSE IF def.kind = "low_confidence"
    THEN [ field_name |-> def.field, input_type |-> "confirm_or_correct",
           current_value |-> FieldValue(d, def.field), options |-> << >> ]
    ELSE [ field_name |-> "category", input_type |-> "select",
           current_value |-> VNull,
           options |-> [i \in 1..Len(CategoryOptions) |->
                          [value |-> VStr(CategoryOptions[i]), label |-> CategoryOptions[i]]] ]

\* variant: a draft on which nothing was extracted is passed as ok
Validator_PassesEmptyDraft(d) ==
    LET defs == IF \A f \in FieldNames : Missing(d, f) THEN << >> ELSE Deficiencies(d)
    IN  IF defs = << >>
        THEN [d EXCEPT !.status = "ok", !.review_reason = << >>, !.review_questions = << >>]
        ELSE [d EXCEPT !.status = "needs_review",
                       !.review_reason = [i \in 1..Len(defs) |-> defs[i].kind],
                       !.review_questions =
                           [i \in 1..Len(defs) |-> ReviewQuestionGenerator(defs[i], d)]]

Validator(d) ==
    LET defs == Deficiencies(d)
    IN  IF defs = << >>
        THEN [d EXCEPT !.status = "ok", !.review_reason = << >>, !.review_questions = << >>]
        ELSE [d EXCEPT !.status = "needs_review",
                       !.review_reason = [i \in 1..Len(defs) |-> defs[i].kind],
                       !.review_questions =
                           [i \in 1..Len(defs) |-> ReviewQuestionGenerator(defs[i], d)]]

\* ingest: Normalizer, then VAT Resolver, then Validator
Ingest(raw) == Validator(VATResolver(Normalizer(raw)).draft)

-----------------------------------------------------------------------------
(* Resolution Merger (4.5): resolve(record, answers) *)

QuestionFields(r) == {r.review_questions[i].field_name : i \in 1..Len(r.review_questions)}

\* variant: no check of the answered field names against the question set
AllowedFields_Any(r, answers) == FieldNames

\* amount may accompany vat_inclusive as input of the VAT Resolver
AllowedFields(r, answers) ==
    QuestionFields(r) \cup (IF "vat_inclusive" \in Keys(answers) THEN {"amount"} ELSE {})

\* the answer has the shape its field accepts
Coercible(f, v) ==
    IF f = "amount" THEN v.t = "number" /\ v.n >= 0
    ELSE IF f = "vat_inclusive"
    THEN v.t = "boolean" \/ (v.t = "string" /\ v.s \in {"true", "false"})
    ELSE v.t = "string" /\ v.s # ""

\* number -> decimal, "true"/"false" on a boolean field -> boolean, else passthrough
CoerceFlag(v) ==
    IF v.t = "boolean" THEN (IF v.b THEN "true" ELSE "false") ELSE v.s

\* variant: an answered field stays flagged as low-confidence
Merge_KeepsLowConfidence(r, answers) ==
    LET has(f) == f \in Keys(answers)
    IN  [r EXCEPT
           !.vendor = IF has("vendor") THEN answers["vendor"].s ELSE @,
           !.amount = IF has("amount") THEN answers["amount"].n ELSE @,
           !.date = IF has("date") THEN answers["date"].s ELSE @,
           !.category = IF has("category") THEN answers["category"].s ELSE @,
           !.vat_inclusive = IF has("vat_inclusive") THEN CoerceFlag(answers["vat_inclusive"]) ELSE @]

Merge(r, answers) ==
    LET has(f) == f \in Keys(answers)
    IN  [r EXCEPT
           !.vendor = IF has("vendor") THEN answers["vendor"].s ELSE @,
           !.amount = IF has("amount") THEN answers["amount"].n ELSE @,
           !.date = IF has("date") THEN answers["date"].s ELSE @,
           !.category = IF has("category") THEN answers["category"].s ELSE @,
           !.vat_inclusive = IF has("vat_inclusive") THEN CoerceFlag(answers["vat_inclusive"]) ELSE @,
           !.low_confidence = @ \ Keys(answers)]

\* variant: the override sets the status and leaves the questions in place
ApproveAsIs_KeepsQuestions(r) == [r EXCEPT !.status = "ok"]

\* approve as-is: the override path that bypasses the Validator
ApproveAsIs(r) ==
    [r EXCEPT !.status = "ok", !.review_reason = << >>, !.review_questions = << >>]

\* variant: after the merge the record is marked ok without re-validation
resolve_MarksOk(r, answers) ==
    IF Keys(answers) = {}
    THEN [error |-> "", invoice |-> ApproveAsIs(r)]
    ELSE IF \E f \in Keys(answers) : f \notin AllowedFields(r, answers) \/ ~Coercible(f, answers[f])
    THEN [error |-> "ReviewAnswerInvalid", invoice |-> r]
    ELSE LET vr == VATResolver(Merge(r, answers))
         IN  IF ~vr.ok
             THEN [error |-> "VATResolverFailure", invoice |-> r]
             ELSE [error |-> "", invoice |-> ApproveAsIs(vr.draft)]

\* variant: answers for unknown fields are dropped and the rest is applied
resolve_PartialApply(r, answers) ==
    LET kept == [f \in FieldNames |->
                    IF f \in Keys(answers) /\ f \in AllowedFields(r, answers)
                       /\ Coercible(f, answers[f])
                    THEN answers[f] ELSE VUndef]
    IN  IF Keys(answers) = {}
        THEN [error |-> "", invoice |-> ApproveAsIs(r)]
        ELSE IF Keys(kept) = {}
        THEN [error |-> "ReviewAnswerInvalid", invoice |-> r]
        ELSE LET vr == VATResolver(Merge(r, kept))
             IN  IF ~vr.ok
                 THEN [error |-> "VATResolverFailure", invoice |-> r]
                 ELSE [error |-> "", invoice |-> Validator(vr.draft)]

\* variant: the merged fields are persisted before the VAT Resolver runs
resolve_CommitsBeforeVAT(r, answers) ==
    IF Keys(answers) = {}
    THEN [error |-> "", invoice |-> ApproveAsIs(r)]
    ELSE IF \E f \in Keys(answers) : f \notin AllowedFields(r, answers) \/ ~Coercible(f, answers[f])
    THEN [error |-> "ReviewAnswerInvalid", invoice |-> r]
    ELSE LET vr == VATResolver(Merge(r, answers))
         IN  IF ~vr.ok
             THEN [error |-> "VATResolverFailure", invoice |-> Merge(r, answers)]
             ELSE [error |-> "", invoice |-> Validator(vr.draft)]

\* the response: the error reported to the caller ("" for none) and the
\* record as persisted when the call returns
resolve(r, answers) ==
    IF Keys(answers) = {}
    THEN [error |-> "", invoice |-> ApproveAsIs(r)]
    ELSE IF \E f \in Keys(answers) : f \notin AllowedFields(r, answers) \/ ~Coercible(f, answers[f])
    THEN [error |-> "ReviewAnswerInvalid", invoice |-> r]
    ELSE LET vr == VATResolver(Merge(r, answers))
         IN  IF ~vr.ok
             THEN [error |-> "VATResolverFailure", invoice |-> r]
             ELSE [error |-> "", invoice |-> Validator(vr.draft)]

-----------------------------------------------------------------------------
(* Invoice detail page *)

Tabs == {"tabA", "tabB"}

NoToast == [title |-> "", description |-> ""]

\* text typed into a number input: blank, digits denoting n, or anything else
TypedNumbers ==
    {[kind |-> "blank", n |-> 0], [kind |-> "junk", n |-> 0]}
        \cup {[kind |-> "digits", n |-> a] : a \in AmountVals}

parseNumberOrEmpty(raw) ==
    IF raw.kind = "blank" THEN VStr("")
    ELSE IF raw.kind = "digits" THEN VNum(raw.n)
    ELSE VStr("")

coerceBool(v) ==
    IF v = "true" THEN VBool(TRUE)
    ELSE IF v = "false" THEN VBool(FALSE)
    ELSE VStr(v)

TypedTexts == {"Zed"}

TypedDates == ValidDates

\* what the input rendered for question q can put under q.field_name
renderQuestionInput(q) ==
    IF q.input_type = "number"
    THEN {parseNumberOrEmpty(raw) : raw \in TypedNumbers}
    ELSE IF q.input_type = "date"
    THEN {VStr(d) : d \in TypedDates}
    ELSE IF q.input_type = "select"
    THEN {IF q.field_name = "is_paid" THEN coerceBool(StringOf(q.options[i].value))
          ELSE VStr(StringOf(q.options[i].value)) : i \in 1..Len(q.options)}
    ELSE IF q.input_type = "confirm_or_correct"
    THEN {q.current_value} \cup {parseNumberOrEmpty(raw) : raw \in TypedNumbers}
    ELSE {VStr(x) : x \in TypedTexts}

needsReview(p) == p.invoice # << >> /\ p.invoice[1].status = "needs_review"

\* the part of the fetched invoice that the handlers and the review card read
\* (the remaining fields are only displayed)
Fetched(r) ==
    [status |-> r.status, review_questions |-> r.review_questions, amount |-> r.amount]

\* the answers pre-filled from the questions' current values
InitialAnswers(r) ==
    [f \in FieldNames |->
        IF \E i \in 1..Len(r.review_questions) :
              r.review_questions[i].field_name = f
              /\ r.review_questions[i].current_value.t # "null"
        THEN (CHOOSE v \in {r.review_questions[i].current_value :
                              i \in {j \in 1..Len(r.review_questions) :
                                        r.review_questions[j].field_name = f}} : TRUE)
        ELSE VUndef]

load(t) ==
    /\ page' = [page EXCEPT ![t] =
                  [ invoice |-> IF db = << >> THEN << >> ELSE << Fetched(db[1]) >>,
                    answers |-> IF db = << >> THEN NoAnswers ELSE InitialAnswers(db[1]),
                    toast |-> NoToast ]]
    /\ UNCHANGED db

updateAnswer(t, field, value) ==
    page' = [page EXCEPT ![t].answers[field] = value]

\* the reviewer uses the input of one of the rendered questions
AnswerQuestion(t) ==
    /\ needsReview(page[t])
    /\ \E i \in 1..Len(page[t].invoice[1].review_questions) :
          LET q == page[t].invoice[1].review_questions[i]
          IN  \E v \in renderQuestionInput(q) : updateAnswer(t, q.field_name, v)
    /\ UNCHANGED db

\* the VAT control below the questions, shown whenever the card is shown
VATControl(t) ==
    /\ needsReview(page[t])
    /\ \E v \in {"inclusive", "exclusive"} :
          updateAnswer(t, "vat_inclusive", VBool(v = "inclusive"))
    /\ UNCHANGED db

Truthy(amount) == amount # NoAmount /\ amount # 0

\* the answers handleSubmitReview puts in the request body
filledAnswers(p) ==
    LET filled == [f \in FieldNames |->
                      IF p.answers[f].t \in {"undefined", "null"} \/ p.answers[f] = VStr("")
                      THEN VUndef ELSE p.answers[f]]
    IN  IF "vat_inclusive" \in Keys(filled) /\ Truthy(p.invoice[1].amount)
        THEN [filled EXCEPT !["amount"] = VNum(p.invoice[1].amount)]
        ELSE filled

handleSubmitReview(t) ==
    /\ needsReview(page[t])
    /\ LET body == filledAnswers(page[t])
           res == resolve(db[1], body)
       IN  IF Keys(body) = {}
           THEN /\ page' = [page EXCEPT ![t].toast =
                              [title |-> "No answers provided",
                               description |-> "Please answer at least one question before submitting."]]
                /\ UNCHANGED db
           ELSE /\ db' = << res.invoice >>
                /\ page' = IF res.error # ""
                           THEN [page EXCEPT ![t].toast =
                                   [title |-> "Error", description |-> res.error]]
                           ELSE [page EXCEPT ![t] =
                                   [ invoice |-> << Fetched(res.invoice) >>,
                                     answers |-> NoAnswers,
                                     toast |-> [title |-> "Invoice updated",
                                                description |->
                                                   "The invoice has been verified and marked as OK."] ]]

\* variant: "Approve as-is" posts the filled answers instead of {}
handleSkipReview_SendsAnswers(t) ==
    /\ needsReview(page[t])
    /\ LET res == resolve(db[1], filledAnswers(page[t]))
       IN  /\ db' = << res.invoice >>
           /\ page' = IF res.error # ""
                      THEN [page EXCEPT ![t].toast =
                              [title |-> "Error", description |-> res.error]]
                      ELSE [page EXCEPT ![t] =
                              [ invoice |-> << Fetched(res.invoice) >>,
                                answers |-> NoAnswers,
                                toast |-> [title |-> "Invoice approved",
                                           description |-> "Marked as OK without changes."] ]]

handleSkipReview(t) ==
    /\ needsReview(page[t])
    /\ LET res == resolve(db[1], NoAnswers)
       IN  /\ db' = << res.invoice >>
           /\ page' = IF res.error # ""
                      THEN [page EXCEPT ![t].toast =
                              [title |-> "Error", description |-> res.error]]
                      ELSE [page EXCEPT ![t] =
                              [ invoice |-> << Fetched(res.invoice) >>,
                                answers |-> NoAnswers,
                                toast |-> [title |-> "Invoice approved",
                                           description |-> "Marked as OK without changes."] ]]

-----------------------------------------------------------------------------
(* Backend operations on the record *)

RawVendors == {VNull, VStr("acme trading llc"), VStr("Zed")}

RawDates == {VNull, VStr("2024-03-01"), VStr("n/a")}

\* the extractor outputs the VAT Resolver has a rule for: a tax figure comes
\* with an amount it agrees with, a flag comes with an amount
RawProduct ==
    { [ vendor |-> v, amount |-> a, date |-> d, tax_amount |-> x,
        vat_inclusive |-> vi, is_paid |-> VNull, low_confidence |-> lc ] :
        v \in RawVendors, d \in RawDates,
        a \in {VNull} \cup {VNum(n) : n \in AmountVals},
        x \in {VNull} \cup {VNum(n) : n \in {TaxOfNet(m) : m \in AmountVals}
                                        \cup {m - NetOfGross(m) : m \in AmountVals}},
        vi \in {VNull, VBool(TRUE), VBool(FALSE)},
        lc \in {{}, {"amount"}} }

RawInputs ==
    {ScaffoldRaw} \cup
    { raw \in RawProduct :
        raw.low_confidence # {} => (raw.vendor # VNull /\ raw.date = VStr("2024-03-01")) }

ingest(raw) ==
    /\ db = << >>
    /\ VATResolver(Normalizer(raw)).ok
    /\ db' = << Ingest(raw) >>
    /\ UNCHANGED page

\* PATCH /invoices/{id} with {is_paid}: the narrow update path
patch_invoice(isPaid) ==
    /\ db # << >>
    /\ db' = << [db[1] EXCEPT !.is_paid = IF isPaid THEN "true" ELSE "false"] >>
    /\ UNCHANGED page

-----------------------------------------------------------------------------

FreshPage == [invoice |-> << >>, answers |-> NoAnswers, toast |-> NoToast]

\* no extraction task is in flight
NoTask == << >>

\* the dashboard page is not open
NoDashboard == << >>

\* the invoices list page is not open
NoList == << >>

\* the upload page is not open
NoUpload == << >>

Init ==
    /\ db = << >>
    /\ page = [t \in {"tabA"} |-> FreshPage]
    /\ task = NoTask
    /\ dash = NoDashboard
    /\ list = NoList
    /\ upload = NoUpload

Next ==
    \/ \E raw \in RawInputs : ingest(raw) /\ UNCHANGED offPage
    \/ \E isPaid \in BOOLEAN : patch_invoice(isPaid) /\ UNCHANGED offPage
    \/ \E t \in DOMAIN page : load(t) /\ UNCHANGED offPage
    \/ \E t \in DOMAIN page : AnswerQuestion(t) /\ UNCHANGED offPage
    \/ \E t \in DOMAIN page : VATControl(t) /\ UNCHANGED offPage
    \/ \E t \in DOMAIN page : handleSubmitReview(t) /\ UNCHANGED offPage
    \/ \E t \in DOMAIN page : handleSkipReview(t) /\ UNCHANGED offPage

Spec == Init /\ [][Next]_vars

\* the same record open in two browser tabs, for a VAT-ambiguous document
RawInputsTwoTabs ==
    { raw \in RawInputs :
        /\ raw.vendor # VNull
        /\ raw.amount = VNum(AmountSamples[1])
        /\ raw.tax_amount = VNull /\ raw.vat_inclusive = VNull
        /\ raw.date = VStr("2024-03-01") /\ raw.low_confidence = {} }

InitTwoTabs ==
    /\ db = << >>
    /\ page = [t \in Tabs |-> FreshPage]
    /\ task = NoTask
    /\ dash = NoDashboard
    /\ list = NoList
    /\ upload = NoUpload

NextTwoTabs ==
    \/ \E raw \in RawInputsTwoTabs : ingest(raw) /\ UNCHANGED offPage
    \/ \E t \in DOMAIN page : load(t) /\ UNCHANGED offPage
    \/ \E t \in DOMAIN page : AnswerQuestion(t) /\ UNCHANGED offPage
    \/ \E t \in DOMAIN page : VATControl(t) /\ UNCHANGED offPage
    \/ \E t \in DOMAIN page : handleSubmitReview(t) /\ UNCHANGED offPage
    \/ \E t \in DOMAIN page : handleSkipReview(t) /\ UNCHANGED offPage

SpecTwoTabs == InitTwoTabs /\ [][NextTwoTabs]_vars

-----------------------------------------------------------------------------
(* The review loop of one page with a diligent reviewer *)

\* the step of handleSubmitReview in which the body answers every question
\* issued on the record and the backend accepts it
CompleteResolve(t) ==
    /\ needsReview(page[t])
    /\ \E body \in {filledAnswers(page[t])} : \E r \in {db[1]} :
          \E res \in {resolve(r, body)} :
             /\ Keys(body) # {}
             /\ QuestionFields(r) \subseteq Keys(body)
             /\ res.error = ""
             /\ db' = << res.invoice >>
             /\ page' = [page EXCEPT ![t] =
                           [ invoice |-> << Fetched(res.invoice) >>,
                             answers |-> NoAnswers,
                             toast |-> [title |-> "Invoice updated",
                                        description |->
                                           "The invoice has been verified and marked as OK."] ]]

\* documents whose date was extracted and whose tax figure was not
RawInputsReviewLoop ==
    { raw \in RawInputs :
        /\ raw.vendor # VStr("Zed") /\ raw.date = VStr("2024-03-01")
        /\ raw.tax_amount = VNull }

\* a reviewer who has filled in an acceptable answer for every question
\* issued does get to submit it
NextReviewLoop ==
    \/ \E raw \in RawInputsReviewLoop : ingest(raw) /\ UNCHANGED offPage
    \/ \E t \in DOMAIN page : load(t) /\ UNCHANGED offPage
    \/ \E t \in DOMAIN page : AnswerQuestion(t) /\ UNCHANGED offPage
    \/ \E t \in DOMAIN page : handleSubmitReview(t) /\ UNCHANGED offPage
    \/ \E t \in DOMAIN page : handleSkipReview(t) /\ UNCHANGED offPage

SpecReviewLoop ==
    /\ Init /\ [][NextReviewLoop]_vars
    /\ SF_vars(\E t \in {"tabA"} : CompleteResolve(t) /\ UNCHANGED offPage)

-----------------------------------------------------------------------------
(* The ingestion pipeline as a background task: the task runner holds the   *)
(* raw extractor output and delivers it at least once; each delivery starts *)
(* the pipeline again from the raw input, and the record is written when    *)
(* the Validator has run.                                                   *)

PipelineStages == <<"normalize", "vat", "validate", "done">>

\* a document is handed to the task runner
dispatch(raw) ==
    /\ task = NoTask
    /\ VATResolver(Normalizer(raw)).ok
    /\ task' = << [raw |-> raw, stage |-> 1, deliveries |-> 1,
                    draft |-> Normalizer(ScaffoldRaw)] >>
    /\ UNCHANGED <<db, page, dash, list, upload>>

normalize_step ==
    /\ task # NoTask /\ PipelineStages[task[1].stage] = "normalize"
    /\ task' = << [task[1] EXCEPT !.stage = 2, !.draft = Normalizer(task[1].raw)] >>
    /\ UNCHANGED <<db, page, dash, list, upload>>

vat_step ==
    /\ task # NoTask /\ PipelineStages[task[1].stage] = "vat"
    /\ task' = << [task[1] EXCEPT !.stage = 3, !.draft = VATResolver(task[1].draft).draft] >>
    /\ UNCHANGED <<db, page, dash, list, upload>>

\* variant: a run that finds a record keeps its questions and adds its own
validate_step_AppendsQuestions ==
    /\ task # NoTask /\ PipelineStages[task[1].stage] = "validate"
    /\ task' = << [task[1] EXCEPT !.stage = 4, !.draft = Validator(task[1].draft)] >>
    /\ db' = IF db = << >> THEN << Validator(task[1].draft) >>
             ELSE << [Validator(task[1].draft) EXCEPT
                        !.review_questions = db[1].review_questions \o @] >>
    /\ UNCHANGED <<page, dash, list, upload>>

validate_step ==
    /\ task # NoTask /\ PipelineStages[task[1].stage] = "validate"
    /\ task' = << [task[1] EXCEPT !.stage = 4, !.draft = Validator(task[1].draft)] >>
    /\ db' = << Validator(task[1].draft) >>
    /\ UNCHANGED <<page, dash, list, upload>>

\* the task is delivered again (after a failure part-way, or a duplicate
\* delivery of a finished task): the pipeline starts over from the raw input
redeliver ==
    /\ task # NoTask /\ task[1].stage > 1
    /\ task[1].deliveries < MaxDeliveries
    /\ task' = << [task[1] EXCEPT !.stage = 1, !.deliveries = @ + 1,
                                  !.draft = Normalizer(ScaffoldRaw)] >>
    /\ UNCHANGED <<db, page, dash, list, upload>>

NextPipeline ==
    \/ \E raw \in RawInputs : dispatch(raw)
    \/ normalize_step
    \/ vat_step
    \/ validate_step
    \/ redeliver

SpecPipeline == Init /\ [][NextPipeline]_vars

-----------------------------------------------------------------------------
(* Calendar dates as the Date object and date-fns compute them. A date is  *)
(* a local calendar day [y, m, d] with m in 1..12 (0..11 in the source);   *)
(* getTime is counted in days, every timestamp compared being a midnight.  *)

NoDate == [y |-> 0, m |-> 0, d |-> 0]

IsLeapYear(y) == (y % 4 = 0 /\ y % 100 # 0) \/ y % 400 = 0

DaysInMonth(y, m) ==
    IF m = 2 THEN (IF IsLeapYear(y) THEN 29 ELSE 28)
    ELSE IF m \in {4, 6, 9, 11} THEN 30 ELSE 31

RECURSIVE DaysBeforeYear(_)
DaysBeforeYear(y) ==
    IF y <= 2023 THEN 0
    ELSE DaysBeforeYear(y - 1) + (IF IsLeapYear(y - 1) THEN 366 ELSE 365)

RECURSIVE DaysBeforeMonth(_, _)
DaysBeforeMonth(y, m) ==
    IF m = 1 THEN 0 ELSE DaysBeforeMonth(y, m - 1) + DaysInMonth(y, m - 1)

getTime(date) == DaysBeforeYear(date.y) + DaysBeforeMonth(date.y, date.m) + date.d

getDate(date) == date.d

\* new Date(year, month, day): a day past the end of the month runs over into
\* the month after
NewDate(y, m, d) ==
    IF d <= DaysInMonth(y, m) THEN [y |-> y, m |-> m, d |-> d]
    ELSE [ y |-> IF m = 12 THEN y + 1 ELSE y,
           m |-> IF m = 12 THEN 1 ELSE m + 1,
           d |-> d - DaysInMonth(y, m) ]

\* date-fns addMonths: the day is capped at the last day of the target month
addMonths(date, amount) ==
    LET total == date.y * 12 + (date.m - 1) + amount
        ty == total \div 12
        tm == (total % 12) + 1
    IN  [ y |-> ty, m |-> tm,
          d |-> IF date.d <= DaysInMonth(ty, tm) THEN date.d ELSE DaysInMonth(ty, tm) ]

-----------------------------------------------------------------------------
(* String methods the analyzer uses *)

UpperCaseLetters == "ABCDEFGHIJKLMNOPQRSTUVWXYZ"

LowerCaseLetters == "abcdefghijklmnopqrstuvwxyz"

CharAt(s, i) == SubSeq(s, i, i)

UpperCaseSet == {CharAt(UpperCaseLetters, i) : i \in 1..Len(UpperCaseLetters)}

LowerOfUpper ==
    [ch \in UpperCaseSet |->
        CharAt(LowerCaseLetters,
               CHOOSE i \in 1..Len(UpperCaseLetters) : CharAt(UpperCaseLetters, i) = ch)]

LowerChar(ch) == IF ch \in UpperCaseSet THEN LowerOfUpper[ch] ELSE ch

RECURSIVE toLowerCase(_)
toLowerCase(s) ==
    IF Len(s) = 0 THEN s
    ELSE LowerChar(CharAt(s, 1)) \o toLowerCase(SubSeq(s, 2, Len(s)))

RECURSIVE trim(_)
trim(s) ==
    IF Len(s) = 0 THEN s
    ELSE IF CharAt(s, 1) = " " THEN trim(SubSeq(s, 2, Len(s)))
    ELSE IF CharAt(s, Len(s)) = " " THEN trim(SubSeq(s, 1, Len(s) - 1))
    ELSE s

includes(text, k) ==
    \E i \in 1..(Len(text) - Len(k) + 1) : SubSeq(text, i, i + Len(k) - 1) = k

some(keywords, text) == \E i \in DOMAIN keywords : includes(text, keywords[i])

IsWordChar(ch) == includes(LowerCaseLetters \o UpperCaseLetters \o "0123456789_", ch)

\* a finite set of integers as an ascending sequence
RECURSIVE Ascending(_)
Ascending(S) ==
    IF S = {} THEN << >>
    ELSE LET least == CHOOSE x \in S : \A y \in S : x <= y
         IN  << least >> \o Ascending(S \ {least})

\* Array.prototype.sort with a numeric comparator on key: ascending, stable
SortedBy(items, key) ==
    [p \in 1..Len(items) |->
        items[CHOOSE i \in 1..Len(items) :
                 Cardinality({j \in 1..Len(items) :
                                 key[j] < key[i] \/ (key[j] = key[i] /\ j < i)}) = p - 1]]

-----------------------------------------------------------------------------
(* Recurring Expense Analyzer of the dashboard *)

UTILITY_KEYWORDS == <<"dewa", "sewa", "fewa", "addc", "electricity", "water", "power">>

TELECOM_KEYWORDS == <<"etisalat", "virgin mobile">>

SUBSCRIPTION_KEYWORDS ==
    <<"microsoft 365", "microsoft", "google workspace", "adobe", "slack", "zoom", "aws",
      "azure", "dropbox", "notion", "figma", "github", "atlassian", "jira", "hubspot",
      "salesforce", "spotify", "netflix", "office 365">>

INSURANCE_KEYWORDS == <<"insurance", "takaful">>

RENT_KEYWORDS == <<"rent", "lease", "tenancy">>

EXCLUDE_KEYWORDS ==
    <<"gdrfa", "amer", "tas-heel", "tasheel", "dha", "rta", "traffic", "fine", "penalty",
      "visa", "emirates id", "license", "registration", "government", "ministry",
      "municipality", "court", "legal">>

\* the three tests for the operator "du": /\bdu\s/, /\sdu\b/ and text === "du"
MatchesDu(text) ==
    \/ \E i \in 1..(Len(text) - 2) :
          /\ SubSeq(text, i, i + 2) = "du "
          /\ (i = 1 \/ ~IsWordChar(CharAt(text, i - 1)))
    \/ \E i \in 1..(Len(text) - 2) :
          /\ SubSeq(text, i, i + 2) = " du"
          /\ (i + 2 = Len(text) \/ ~IsWordChar(CharAt(text, i + 3)))
    \/ text = "du"

NoType == "<undefined>"

getExpenseType(vendor, category) ==
    LET text == toLowerCase(vendor \o " " \o (IF category = NoText THEN "" ELSE category))
    IN  IF some(UTILITY_KEYWORDS, text) THEN "utility"
        ELSE IF some(TELECOM_KEYWORDS, text) \/ MatchesDu(text) THEN "telecom"
        ELSE IF some(SUBSCRIPTION_KEYWORDS, text) THEN "subscription"
        ELSE IF some(INSURANCE_KEYWORDS, text) THEN "insurance"
        ELSE IF some(RENT_KEYWORDS, text) THEN "rent"
        ELSE NoType

\* variant: the keywords are looked up in the name as it is written
isExcluded_CaseSensitive(vendor) == some(EXCLUDE_KEYWORDS, vendor)

isExcluded(vendor) == some(EXCLUDE_KEYWORDS, toLowerCase(vendor))

\* the invoices the analyzer does not skip: vendor, date and amount all truthy
IsCounted(inv) ==
    /\ inv.vendor # NoText /\ inv.vendor # ""
    /\ inv.date # NoDate
    /\ Truthy(inv.amount)

vendorKey(inv) == trim(toLowerCase(inv.vendor))

\* the keys of vendorInvoices, in insertion order
vendorKeys(counted) ==
    LET first == {i \in 1..Len(counted) :
                    \A j \in 1..(i - 1) : vendorKey(counted[j]) # vendorKey(counted[i])}
        order == Ascending(first)
    IN  [p \in 1..Len(order) |-> vendorKey(counted[order[p]])]

\* vendorInvoices[vendor]
vendorInvoices(counted, vendor) ==
    LET at == Ascending({i \in 1..Len(counted) : vendorKey(counted[i]) = vendor})
    IN  [p \in 1..Len(at) |-> counted[at[p]]]

sortByDate(invs) == SortedBy(invs, [i \in 1..Len(invs) |-> getTime(invs[i].date)])

NoDayGroups == [k \in 1..31 |-> << >>]

\* variant: no grouping by day, every invoice of the vendor is in one group
dayGroups_OneGroup(sorted, i, groups) ==
    IF sorted = << >> THEN groups
    ELSE [groups EXCEPT ![getDate(sorted[1].date)] = sorted]

\* variant: an invoice joins the group of the nearest day, however far
RECURSIVE dayGroups_NearestGroup(_, _, _)
dayGroups_NearestGroup(sorted, i, groups) ==
    IF i > Len(sorted) THEN groups
    ELSE LET day == getDate(sorted[i].date)
             days == {k \in DOMAIN groups : groups[k] # << >>}
             matchedDay == IF days = {} THEN day
                           ELSE CHOOSE k \in days :
                                   \A j \in days : Abs(k - day) <= Abs(j - day)
         IN  dayGroups_NearestGroup(sorted, i + 1,
                                    [groups EXCEPT ![matchedDay] = Append(@, sorted[i])])

\* STEP 1: an invoice joins the first existing group (keys in ascending
\* order) whose day is within one day of its own, or starts the group of its day
RECURSIVE dayGroups(_, _, _)
dayGroups(sorted, i, groups) ==
    IF i > Len(sorted) THEN groups
    ELSE LET day == getDate(sorted[i].date)
             near == {k \in DOMAIN groups : groups[k] # << >> /\ Abs(k - day) <= 1}
             matchedDay == IF near = {} THEN day
                           ELSE CHOOSE k \in near : \A j \in near : k <= j
         IN  dayGroups(sorted, i + 1, [groups EXCEPT ![matchedDay] = Append(@, sorted[i])])

\* variant: a group of one invoice counts as well
validGroups_AnySize(groups) ==
    LET days == Ascending({k \in DOMAIN groups : Len(groups[k]) >= 1})
    IN  SortedBy(days, [i \in 1..Len(days) |-> 0 - Len(groups[days[i]])])

\* STEP 2: the days of the groups of at least 2 invoices, largest group first
validGroups(groups) ==
    LET days == Ascending({k \in DOMAIN groups : Len(groups[k]) >= 2})
    IN  SortedBy(days, [i \in 1..Len(days) |-> 0 - Len(groups[days[i]])])

\* the group STEP 3 is run on for one vendor: the largest day group of at
\* least 2 invoices, in date order; empty when the vendor has none
selectedGroup(invs) ==
    LET groups == dayGroups(sortByDate(invs), 1, NoDayGroups)
        valid == validGroups(groups)
    IN  IF valid = << >> THEN << >> ELSE sortByDate(groups[valid[1]])

\* variant: only the first gap of the group is looked at
isMonthlyConsistent_FirstGapOnly(groupSorted) ==
    LET daysDiff == getTime(groupSorted[2].date) - getTime(groupSorted[1].date)
    IN  ~(daysDiff < 25 \/ daysDiff > 38)

\* STEP 3: every invoice of the group is 25 to 38 days after the one before
isMonthlyConsistent(groupSorted) ==
    \A i \in 2..Len(groupSorted) :
        LET daysDiff == getTime(groupSorted[i].date) - getTime(groupSorted[i - 1].date)
        IN  ~(daysDiff < 25 \/ daysDiff > 38)

Sum(amounts) ==
    LET acc[i \in 0..Len(amounts)] == IF i = 0 THEN 0 ELSE acc[i - 1] + amounts[i]
    IN  acc[Len(amounts)]

\* the next expected date: this month's, or next month's when that has passed
nextExpectedOf(now, avgDay) ==
    LET nextExpected == NewDate(now.y, now.m, avgDay)
    IN  IF getTime(nextExpected) <= getTime(now) THEN addMonths(nextExpected, 1)
        ELSE nextExpected

\* variant: the exclusion keywords are looked up in the category as well
recurringOfVendor_ExcludesByCategory(invs, now) ==
    IF Len(invs) < 2 THEN << >>
    ELSE LET sorted == sortByDate(invs)
             displayVendor == sorted[1].vendor
         IN  IF isExcluded(displayVendor \o " " \o sorted[1].category) THEN << >>
             ELSE LET groups == dayGroups(sorted, 1, NoDayGroups)
                      valid == validGroups(groups)
                  IN  IF valid = << >> THEN << >>
                      ELSE LET avgDay == valid[1]
                               groupSorted == sortByDate(groups[avgDay])
                           IN  IF ~isMonthlyConsistent(groupSorted) THEN << >>
                               ELSE << [ vendor |-> displayVendor,
                                         avgAmount |->
                                            [ sum |-> Sum([i \in 1..Len(groupSorted) |->
                                                             groupSorted[i].amount]),
                                              count |-> Len(groupSorted) ],
                                         dayOfMonth |-> avgDay,
                                         frequency |-> Len(groupSorted),
                                         lastDate |-> groupSorted[Len(groupSorted)].date,
                                         category |->
                                            IF groupSorted[1].category = "" THEN NoText
                                            ELSE groupSorted[1].category,
                                         nextExpected |-> nextExpectedOf(now, avgDay),
                                         type |-> getExpenseType(displayVendor,
                                                                 groupSorted[1].category) ] >>

\* the body of the loop over the vendors: no entry or one entry
recurringOfVendor(invs, now) ==
    IF Len(invs) < 2 THEN << >>
    ELSE LET sorted == sortByDate(invs)
             displayVendor == sorted[1].vendor
         IN  IF isExcluded(displayVendor) THEN << >>
             ELSE LET groups == dayGroups(sorted, 1, NoDayGroups)
                      valid == validGroups(groups)
                  IN  IF valid = << >> THEN << >>
                      ELSE LET avgDay == valid[1]
                               groupSorted == sortByDate(groups[avgDay])
                           IN  IF ~isMonthlyConsistent(groupSorted) THEN << >>
                               ELSE << [ vendor |-> displayVendor,
                                         avgAmount |->
                                            [ sum |-> Sum([i \in 1..Len(groupSorted) |->
                                                             groupSorted[i].amount]),
                                              count |-> Len(groupSorted) ],
                                         dayOfMonth |-> avgDay,
                                         frequency |-> Len(groupSorted),
                                         lastDate |-> groupSorted[Len(groupSorted)].date,
                                         category |->
                                            IF groupSorted[1].category = "" THEN NoText
                                            ELSE groupSorted[1].category,
                                         nextExpected |-> nextExpectedOf(now, avgDay),
                                         type |-> getExpenseType(displayVendor,
                                                                 groupSorted[1].category) ] >>

RECURSIVE forEachVendor(_, _, _, _)
forEachVendor(vendors, i, counted, now) ==
    IF i > Len(vendors) THEN << >>
    ELSE recurringOfVendor(vendorInvoices(counted, vendors[i]), now)
            \o forEachVendor(vendors, i + 1, counted, now)

\* variant: the analyzer sorts the array it is given
invoicesAfterAnalysis_SortedInPlace(invoices) == sortByDate(invoices)

\* the array the analyzer is given, as the call leaves it: the invoices are
\* pushed onto arrays of the analyzer's own (vendorInvoices, dayGroups), and
\* these are the arrays Array.sort reorders in place
invoicesAfterAnalysis(invoices) == invoices

\* variant: the entries are returned in the order of the vendors
analyzeRecurringExpenses_Unsorted(invoices, now) ==
    LET counted == SelectSeq(invoices, IsCounted)
    IN  forEachVendor(vendorKeys(counted), 1, counted, now)

analyzeRecurringExpenses(invoices, now) ==
    LET counted == SelectSeq(invoices, IsCounted)
        recurring == forEachVendor(vendorKeys(counted), 1, counted, now)
    IN  SortedBy(recurring,
                 [i \in 1..Len(recurring) |-> getTime(recurring[i].nextExpected)])

-----------------------------------------------------------------------------
(* The dashboard page *)

Invoice(id, vendor, amount, date, category) ==
    [id |-> id, vendor |-> vendor, amount |-> amount, date |-> date, category |-> category]

Day(y, m, d) == [y |-> y, m |-> m, d |-> d]

\* the invoices table the list endpoint reads, in id order
InvoiceTable ==
    << Invoice(1, "Etisalat", 31500, Day(2024, 2, 1), "Telecom & Connectivity"),
       Invoice(2, "Etisalat", 31500, Day(2024, 1, 1), "Telecom & Connectivity"),
       Invoice(3, "ETISALAT ", 33600, Day(2024, 3, 1), NoText),
       Invoice(4, "Etisalat", 31500, Day(2024, 4, 20), "Telecom & Connectivity"),
       Invoice(5, "Etisalat", 0, Day(2024, 4, 1), "Telecom & Connectivity"),
       Invoice(6, "VISA Centre", 52500, Day(2024, 1, 5), NoText),
       Invoice(7, "VISA Centre", 52500, Day(2024, 2, 5), NoText),
       Invoice(8, "DEWA", 84000, Day(2023, 12, 31), NoText),
       Invoice(9, "DEWA", 91000, Day(2024, 1, 31), NoText),
       Invoice(10, "DEWA", 91000, Day(2024, 3, 31), NoText),
       Invoice(11, "DEWA", 91000, Day(2024, 1, 31), NoText),
       Invoice(12, "Office Rent", 500000, Day(2024, 1, 30), "Occupancy & Facilities"),
       Invoice(13, "Office Rent", 500000, Day(2024, 2, 29), "Occupancy & Facilities"),
       Invoice(14, "Etisalat", 31500, Day(2024, 5, 20), "Telecom & Connectivity"),
       Invoice(15, NoText, 1000, Day(2024, 1, 1), NoText) >>

\* what the list endpoint may return: at most MaxInvoices rows of the table
Snapshots ==
    { [p \in 1..Cardinality(S) |-> InvoiceTable[Ascending(S)[p]]] :
        S \in {T \in SUBSET (1..Len(InvoiceTable)) : Cardinality(T) <= MaxInvoices} }

\* the responses of GET /invoices/: the rows, a body that is no array, or a
\* failed request
Responses ==
    {[kind |-> "array", rows |-> rows] : rows \in Snapshots}
        \cup {[kind |-> "object", rows |-> << >>], [kind |-> "error", rows |-> << >>]}

\* the days on which the dashboard is looked at
Nows ==
    { Day(2024, 1, 31), Day(2024, 2, 10), Day(2024, 4, 10), Day(2024, 12, 31),
      Day(2025, 2, 15) }

\* the page is opened (or reloaded): no invoices yet, the list is being loaded
DashboardPage ==
    /\ \E now \in Nows :
          /\ dash # NoDashboard => getTime(dash[1].now) <= getTime(now)
          /\ dash' = << [ invoices |-> << >>, loading |-> TRUE, now |-> now,
                          recurring |-> analyzeRecurringExpenses(<< >>, now) ] >>
    /\ UNCHANGED <<db, page, task, list, upload>>

\* fetchInvoices, with the render that follows setInvoices: the memoized
\* analysis runs again on the new list. The response arrives on the day the
\* page was opened.
fetchInvoicesFrom(responses) ==
    /\ dash # NoDashboard /\ dash[1].loading
    /\ \E data \in responses :
          dash' = IF data.kind = "error"
                  THEN << [dash[1] EXCEPT !.loading = FALSE] >>
                  ELSE LET invoices == IF data.kind = "array" THEN data.rows ELSE << >>
                       IN  << [ invoices |-> invoicesAfterAnalysis(invoices),
                                loading |-> FALSE, now |-> dash[1].now,
                                recurring |->
                                   analyzeRecurringExpenses(invoices, dash[1].now) ] >>
    /\ UNCHANGED <<db, page, task, list, upload>>

fetchInvoices == fetchInvoicesFrom(Responses)

NextDashboard ==
    \/ DashboardPage
    \/ fetchInvoices

SpecDashboard == Init /\ [][NextDashboard]_vars

-----------------------------------------------------------------------------
(* The dashboard on the invoices of three vendors                          *)

\* the rows of "Etisalat", "VISA Centre" and "Office Rent" with an amount,
\* one row more of them than of the whole table
ResponsesOfThreeVendors ==
    { [kind |-> "array",
       rows |-> [p \in 1..Cardinality(S) |-> InvoiceTable[Ascending(S)[p]]]] :
        S \in {T \in SUBSET {1, 2, 3, 4, 6, 7, 12, 13, 14} :
                 Cardinality(T) <= MaxInvoices + 1} }
        \cup {[kind |-> "object", rows |-> << >>], [kind |-> "error", rows |-> << >>]}

NextThreeVendors ==
    \/ DashboardPage
    \/ fetchInvoicesFrom(ResponsesOfThreeVendors)

SpecThreeVendors == Init /\ [][NextThreeVendors]_vars

-----------------------------------------------------------------------------
(* The dashboard on the invoices of the first quarter, for the comparison  *)
(* of lists of invoices that differ in their categories only               *)

ResponsesOfFirstQuarter ==
    { data \in Responses :
        \A i \in 1..Len(data.rows) : data.rows[i].id \in {1, 2, 3, 6, 7, 12, 13} }

NextFirstQuarter ==
    \/ DashboardPage
    \/ fetchInvoicesFrom(ResponsesOfFirstQuarter)

SpecFirstQuarter == Init /\ [][NextFirstQuarter]_vars

\* categories an invoice may carry instead of its own: none, and one that has
\* a keyword of the type labels and a keyword of the exclusion list in it
CategoryLabels == {NoText, "Legal & Insurance"}

\* the same invoices with other categories
Relabelled(invoices, labels) ==
    [i \in 1..Len(invoices) |-> [invoices[i] EXCEPT !.category = labels[i]]]

\* an entry of the recurring list without its two labels
WithoutLabels(entry) ==
    [ vendor |-> entry.vendor, avgAmount |-> entry.avgAmount,
      dayOfMonth |-> entry.dayOfMonth, frequency |-> entry.frequency,
      lastDate |-> entry.lastDate, nextExpected |-> entry.nextExpected ]

-----------------------------------------------------------------------------
(* The invoices list page *)

PAGE_SIZE_OPTIONS == <<10, 25, 50, 100>>

DEFAULT_FILTERS ==
    [ sort |-> "id_desc", search |-> "", status |-> "all", payment |-> "all",
      category |-> "all", vendor |-> "", dateFrom |-> NoDate, dateTo |-> NoDate ]

\* an invoice as GET /invoices/ lists it; is_paid is a JSON boolean ("true",
\* "false"), a JSON number ("1", "0") or null
ListInvoice(id, vendor, amount, date, status, is_paid, category) ==
    [ id |-> id, vendor |-> vendor, amount |-> amount, currency |-> DEFAULT_CURRENCY,
      date |-> date, status |-> status, is_paid |-> is_paid, category |-> category ]

\* the filters the page starts with, read from the query string
InitialFilters(searchParams) ==
    [ DEFAULT_FILTERS EXCEPT
        !.search = IF searchParams.search = NoText THEN "" ELSE searchParams.search,
        !.status = IF searchParams.status \in {"ok", "needs_review"}
                   THEN searchParams.status ELSE "all",
        !.payment = IF searchParams.payment \in {"paid", "unpaid", "unknown"}
                    THEN searchParams.payment ELSE "all",
        !.category = IF searchParams.category # NoText
                        /\ \E i \in DOMAIN UAE_CATEGORIES :
                              UAE_CATEGORIES[i] = searchParams.category
                     THEN searchParams.category ELSE "all",
        !.vendor = IF searchParams.vendor = NoText THEN "" ELSE searchParams.vendor ]

hasActiveFilters(filters) ==
    \/ filters.search # ""
    \/ filters.status # "all"
    \/ filters.payment # "all"
    \/ filters.category # "all"
    \/ filters.vendor # ""
    \/ filters.dateFrom # NoDate
    \/ filters.dateTo # NoDate

\* the callback of filteredInvoices' filter
passesFilters(inv, filters) ==
    /\ filters.search # "" =>
          LET searchLower == toLowerCase(filters.search)
          IN  \/ inv.vendor # NoText /\ includes(toLowerCase(inv.vendor), searchLower)
              \/ includes(ToString(inv.id), filters.search)
              \/ inv.category # NoText /\ includes(toLowerCase(inv.category), searchLower)
    /\ ~ (filters.status # "all" /\ inv.status # filters.status)
    /\ filters.payment = "paid" => inv.is_paid \in {"true", "1"}
    /\ filters.payment = "unpaid" => inv.is_paid \in {"false", "0"}
    /\ filters.payment = "unknown" => inv.is_paid = "null"
    /\ ~ (filters.category # "all" /\ inv.category # filters.category)
    /\ filters.vendor # "" =>
          inv.vendor # NoText
          /\ includes(toLowerCase(inv.vendor), toLowerCase(filters.vendor))
    /\ ~ (filters.dateFrom # NoDate /\ getTime(inv.date) < getTime(filters.dateFrom))
    /\ ~ (filters.dateTo # NoDate /\ getTime(inv.date) > getTime(filters.dateTo))

\* the comparator of filteredInvoices' sort as a key, for the orders by id,
\* date and amount (the orders by vendor and category compare texts)
sortKey(inv, sort) ==
    CASE sort = "id_desc" -> 0 - inv.id
      [] sort = "id_asc" -> inv.id
      [] sort = "date_desc" -> 0 - getTime(inv.date)
      [] sort = "date_asc" -> getTime(inv.date)
      [] sort = "amount_desc" -> 0 - (IF inv.amount = NoAmount THEN 0 ELSE inv.amount)
      [] sort = "amount_asc" -> (IF inv.amount = NoAmount THEN 0 ELSE inv.amount)

\* Array.prototype.sort with that comparator: ascending by key, stable
RECURSIVE insertByKey(_, _, _)
insertByKey(sorted, inv, sort) ==
    IF sorted = << >> THEN << inv >>
    ELSE IF sortKey(sorted[Len(sorted)], sort) <= sortKey(inv, sort) THEN Append(sorted, inv)
    ELSE Append(insertByKey(SubSeq(sorted, 1, Len(sorted) - 1), inv, sort),
                sorted[Len(sorted)])

RECURSIVE sortInvoices(_, _)
sortInvoices(items, sort) ==
    IF items = << >> THEN << >>
    ELSE insertByKey(sortInvoices(SubSeq(items, 1, Len(items) - 1), sort),
                     items[Len(items)], sort)

filteredInvoices(invoices, filters) ==
    sortInvoices(SelectSeq(invoices, LAMBDA inv : passesFilters(inv, filters)),
                 filters.sort)

\* Array.prototype.slice(start, end) with 0 <= start
slice(items, start, end) ==
    IF start >= Len(items) THEN << >>
    ELSE SubSeq(items, start + 1, IF end < Len(items) THEN end ELSE Len(items))

paginatedInvoices(l) ==
    LET startIndex == (l.currentPage - 1) * l.pageSize
    IN  slice(filteredInvoices(l.invoices, l.filters), startIndex, startIndex + l.pageSize)

\* Math.ceil(filteredInvoices.length / pageSize)
totalPages(l) ==
    (Len(filteredInvoices(l.invoices, l.filters)) + l.pageSize - 1) \div l.pageSize

\* the table and its rows are rendered
tableIsShown(l) ==
    ~ l.loading /\ ~ l.error /\ Len(filteredInvoices(l.invoices, l.filters)) # 0

\* the Pagination component is rendered
paginationIsShown(l) == tableIsShown(l) /\ totalPages(l) > 1

\* the pages the buttons of Pagination lead to: Previous, the page numbers, Next
pageButtons(l) ==
    LET total == totalPages(l)
        shown == IF total < 5 THEN total ELSE 5
        pageNum(i) == IF total <= 5 THEN i + 1
                      ELSE IF l.currentPage <= 3 THEN i + 1
                      ELSE IF l.currentPage >= total - 2 THEN total - 4 + i
                      ELSE l.currentPage - 2 + i
    IN  {l.currentPage - 1 : x \in {y \in {1} : l.currentPage # 1}}
           \cup {pageNum(i) : i \in 0..(shown - 1)}
           \cup {l.currentPage + 1 : x \in {y \in {1} : l.currentPage # total}}

\* the query strings the page is opened with
SearchParams ==
    { [ search |-> NoText, status |-> s, payment |-> p, category |-> NoText,
        vendor |-> NoText ] :
        s \in {NoText, "needs_review", "done"}, p \in {NoText, "unpaid"} }

\* the rows of the backend's table besides the record under review
ListTable(id) ==
    ListInvoice(id,
                IF id % 3 = 0 THEN NoText ELSE IF id % 3 = 1 THEN "DEWA" ELSE "Etisalat",
                IF id % 4 = 0 THEN NoAmount ELSE 1000 * id,
                Day(2024, 1 + (id % 3), id),
                IF id % 5 = 0 THEN "needs_review" ELSE "ok",
                IF id = 3 THEN "1" ELSE IF id % 2 = 0 THEN "0" ELSE "false",
                IF id % 2 = 0 THEN "Office Supplies" ELSE NoText)

\* the id of the record under review in the backend's table
RecordId == 1

\* GET /invoices/ : the rows of the table with an id up to n; the record
\* under review is one of them once it is ingested, with the status and the
\* payment flag it has now
ListResponse(n) ==
    LET others == [ k \in 1..(n - 1) |-> ListTable(k + 1) ]
    IN  IF db # << >> /\ n >= 1
        THEN << [ ListTable(RecordId) EXCEPT !.status = db[1].status,
                                             !.is_paid = db[1].is_paid ] >> \o others
        ELSE others

\* the page is opened: the filters come from the query string, the list is
\* being loaded
InvoicesPageContent ==
    /\ list = NoList
    /\ \E searchParams \in SearchParams :
          list' = << [ invoices |-> << >>, loading |-> TRUE, error |-> FALSE,
                       filters |-> InitialFilters(searchParams),
                       currentPage |-> 1, pageSize |-> PAGE_SIZE_OPTIONS[2],
                       paymentEdits |-> 0, consoleError |-> NoText ] >>
    /\ UNCHANGED <<db, page, task, dash, upload>>

\* fetchInvoices of the list page, on mount and on Retry, for a table of one
\* of the given sizes
fetchInvoicesOfList(sizes) ==
    /\ list # NoList
    /\ list[1].loading \/ list[1].error
    /\ \E n \in sizes, ok \in BOOLEAN :
          list' = IF ok
                  THEN << [list[1] EXCEPT !.invoices = ListResponse(n),
                                          !.loading = FALSE, !.error = FALSE] >>
                  ELSE << [list[1] EXCEPT !.loading = FALSE, !.error = TRUE,
                                          !.consoleError = "Failed to load invoices:"] >>
    /\ UNCHANGED <<db, page, task, dash, upload>>

\* the values the controls of the filter bar offer
FilterValues ==
    [ status |-> {"all", "ok", "needs_review"},
      payment |-> {"all", "paid", "unpaid", "unknown"},
      sort |-> {"id_desc", "id_asc"},
      search |-> {"", "ET"} ]

handleFilterChange(keys) ==
    /\ list # NoList /\ ~ list[1].loading /\ ~ list[1].error
    /\ \E key \in keys :
          \E value \in FilterValues[key] :
             list' = << [list[1] EXCEPT !.filters[key] = value, !.currentPage = 1] >>
    /\ UNCHANGED <<db, page, task, dash, upload>>

clearFilters ==
    /\ list # NoList /\ ~ list[1].loading /\ ~ list[1].error
    /\ hasActiveFilters(list[1].filters)
    /\ list' = << [list[1] EXCEPT !.filters = DEFAULT_FILTERS, !.currentPage = 1] >>
    /\ UNCHANGED <<db, page, task, dash, upload>>

handlePageSizeChange ==
    /\ list # NoList /\ paginationIsShown(list[1])
    /\ \E i \in DOMAIN PAGE_SIZE_OPTIONS :
          list' = << [list[1] EXCEPT !.pageSize = PAGE_SIZE_OPTIONS[i],
                                     !.currentPage = 1] >>
    /\ UNCHANGED <<db, page, task, dash, upload>>

\* a button of Pagination: onPageChange is setCurrentPage
setCurrentPage ==
    /\ list # NoList /\ paginationIsShown(list[1])
    /\ \E p \in pageButtons(list[1]) :
          /\ p <= MaxPage
          /\ list' = << [list[1] EXCEPT !.currentPage = p] >>
    /\ UNCHANGED <<db, page, task, dash, upload>>

\* variant: the update replaces the row by a row that has only id and is_paid
withPayment_FreshRow(inv, isPaid) ==
    [ ListInvoice(inv.id, NoText, NoAmount, NoDate, "ok", "null", NoText)
        EXCEPT !.is_paid = IF isPaid THEN "true" ELSE "false" ]

\* { ...inv, is_paid: isPaid }
withPayment(inv, isPaid) == [inv EXCEPT !.is_paid = IF isPaid THEN "true" ELSE "false"]

\* "Paid" or "Not Paid" on the first or the last row of the displayed page:
\* handlePaymentUpdate with the PATCH it sends; the request fails or is
\* answered OK. consoleError is the last message written by console.error,
\* paymentEdits counts the updates.
handlePaymentUpdate ==
    /\ list # NoList /\ tableIsShown(list[1])
    /\ list[1].paymentEdits < MaxPaymentEdits
    /\ LET shown == paginatedInvoices(list[1])
       IN  \E r \in {1, Len(shown)}, isPaid \in BOOLEAN, ok \in BOOLEAN :
              LET id == shown[r].id
              IN  IF ok
                  THEN /\ list' = << [list[1] EXCEPT
                                        !.invoices =
                                           [i \in 1..Len(list[1].invoices) |->
                                              IF list[1].invoices[i].id = id
                                              THEN withPayment(list[1].invoices[i], isPaid)
                                              ELSE list[1].invoices[i]],
                                        !.paymentEdits = @ + 1] >>
                       /\ IF id = RecordId /\ db # << >>
                          THEN patch_invoice(isPaid)
                          ELSE UNCHANGED <<db, page>>
                  ELSE /\ list' = << [list[1] EXCEPT
                                        !.paymentEdits = @ + 1,
                                        !.consoleError = "Payment update failed:"] >>
                       /\ UNCHANGED <<db, page>>
    /\ UNCHANGED <<task, dash, upload>>

\* the documents ingested while the list is used: the scaffold, an invoice
\* whose amount is ambiguous, a paid invoice with its VAT stated
RawInputsOfList ==
    { ScaffoldRaw,
      [ ScaffoldRaw EXCEPT !.vendor = VStr("Zed"), !.date = VStr("2024-03-01"),
                           !.amount = VNum(AmountSamples[1]) ],
      [ ScaffoldRaw EXCEPT !.vendor = VStr("Zed"), !.date = VStr("2024-03-01"),
                           !.amount = VNum(AmountSamples[1]),
                           !.vat_inclusive = VBool(TRUE), !.is_paid = VBool(TRUE) ] }

\* the list of a table of three invoices, the record under review among them
NextListOfRecord ==
    \/ \E raw \in RawInputsOfList : ingest(raw) /\ UNCHANGED offPage
    \/ InvoicesPageContent
    \/ fetchInvoicesOfList({0, 3})
    \/ handleFilterChange(DOMAIN FilterValues)
    \/ clearFilters
    \/ handlePaymentUpdate

SpecListOfRecord == Init /\ [][NextListOfRecord]_vars

\* the list of a table of other invoices, long enough for two pages
NextList ==
    \/ InvoicesPageContent
    \/ fetchInvoicesOfList({0, NListRows})
    \/ handleFilterChange({"status", "payment", "sort"})
    \/ clearFilters
    \/ handlePageSizeChange
    \/ setCurrentPage
    \/ handlePaymentUpdate

SpecList == Init /\ [][NextList]_vars

-----------------------------------------------------------------------------
(* The upload page *)

MAX_FILE_SIZE == 20 * 1024 * 1024

ALLOWED_EXTENSIONS == <<".pdf", ".png", ".jpg", ".jpeg", ".tiff", ".bmp">>

\* file.name.split(".").pop(): what follows the last dot, the whole name
\* when it has no dot
lastSegment(name) ==
    LET dots == {i \in 1..Len(name) : CharAt(name, i) = "."}
    IN  IF dots = {} THEN name
        ELSE LET last == CHOOSE i \in dots : \A j \in dots : j <= i
             IN  SubSeq(name, last + 1, Len(name))

NoError == "<no error>"

\* the error message of a file, NoError for null
validateFile(file) ==
    LET ext == "." \o toLowerCase(lastSegment(file.name))
    IN  IF ~ \E i \in DOMAIN ALLOWED_EXTENSIONS : ALLOWED_EXTENSIONS[i] = ext
        THEN "Invalid file type"
        ELSE IF file.size > MAX_FILE_SIZE
        THEN "File too large"
        ELSE NoError

\* the files the user chooses from
ChosenFiles ==
    { [name |-> "invoice.pdf", size |-> 1024],
      [name |-> "SCAN.JPEG", size |-> MAX_FILE_SIZE],
      [name |-> "scan.png", size |-> MAX_FILE_SIZE + 1],
      [name |-> "invoice.pdf.exe", size |-> 1024],
      [name |-> "notes", size |-> 0] }

\* a FileList: one file, or two files chosen together
FileLists ==
    {<< f >> : f \in ChosenFiles}
       \cup {<< f, g >> : f \in ChosenFiles, g \in {h \in ChosenFiles : h.size >= 1024}}

\* the page is opened. Besides the state of the component, the model keeps
\* the next id generateId gives (ids are taken as distinct), the ids of the
\* files in the request in flight, and the response of the last request.
UploadPage ==
    /\ upload = NoUpload
    /\ upload' = << [ files |-> << >>, isUploading |-> FALSE, nextId |-> 1,
                      inFlight |-> FALSE, request |-> {}, response |-> "none" ] >>
    /\ UNCHANGED <<db, page, task, dash, list>>

handleFiles ==
    /\ upload # NoUpload
    /\ \E selectedFiles \in FileLists :
          /\ upload[1].nextId - 1 + Len(selectedFiles) <= MaxFiles
          /\ LET newFiles ==
                    [ i \in 1..Len(selectedFiles) |->
                        LET error == validateFile(selectedFiles[i])
                        IN  [ file |-> selectedFiles[i],
                              id |-> upload[1].nextId + i - 1,
                              status |-> IF error # NoError THEN "error" ELSE "pending",
                              progress |-> 0,
                              message |-> error,
                              invoiceId |-> 0 ] ]
             IN  upload' = << [upload[1] EXCEPT
                                 !.files = @ \o newFiles,
                                 !.nextId = @ + Len(selectedFiles)] >>
    /\ UNCHANGED <<db, page, task, dash, list>>

\* the remove button of a file, rendered for pending and error files
handleRemove ==
    /\ upload # NoUpload
    /\ \E i \in 1..Len(upload[1].files) :
          /\ upload[1].files[i].status \in {"pending", "error"}
          /\ upload' = << [upload[1] EXCEPT
                             !.files = SelectSeq(@, LAMBDA f : f.id # upload[1].files[i].id)] >>
    /\ UNCHANGED <<db, page, task, dash, list>>

handleClearAll ==
    /\ upload # NoUpload
    /\ upload[1].files # << >>
    /\ upload' = << [upload[1] EXCEPT !.files = << >>] >>
    /\ UNCHANGED <<db, page, task, dash, list>>

pendingCount(u) == Len(SelectSeq(u.files, LAMBDA f : f.status = "pending"))

\* handleUpload up to its await: the pending files are marked uploading and
\* sent in one request
handleUpload ==
    /\ upload # NoUpload
    /\ pendingCount(upload[1]) # 0 /\ ~ upload[1].isUploading
    /\ upload' = << [upload[1] EXCEPT
                       !.isUploading = TRUE,
                       !.files = [i \in 1..Len(@) |->
                                    IF @[i].status = "pending"
                                    THEN [@[i] EXCEPT !.status = "uploading"] ELSE @[i]],
                       !.inFlight = TRUE,
                       !.request = {upload[1].files[i].id :
                                       i \in {j \in 1..Len(upload[1].files) :
                                                upload[1].files[j].status = "pending"}}] >>
    /\ UNCHANGED <<db, page, task, dash, list>>

\* the status handleUpload gives the uploading files: success after every
\* response, OK or not; error when fetch throws
statusAfter(response) ==
    IF response = "network error" THEN "error" ELSE "success"

\* handleUpload after its await: the response of POST /upload, OK with a
\* result for every file, not OK, or no response at all
handleUploadResponse ==
    /\ upload # NoUpload /\ upload[1].inFlight
    /\ \E response \in {"ok", "not ok", "network error"} :
          upload' = << [upload[1] EXCEPT
                          !.isUploading = FALSE,
                          !.files =
                             [i \in 1..Len(upload[1].files) |->
                                LET f == upload[1].files[i]
                                IN  IF f.status # "uploading" THEN f
                                    ELSE [f EXCEPT
                                            !.status = statusAfter(response),
                                            !.message =
                                               IF response = "ok" THEN "queued"
                                               ELSE IF response = "not ok" THEN NoError
                                               ELSE "Upload failed. Please try again.",
                                            !.invoiceId =
                                               IF response = "ok" THEN f.id ELSE 0]],
                          !.inFlight = FALSE,
                          !.request = {},
                          !.response = response] >>
    /\ UNCHANGED <<db, page, task, dash, list>>

NextUpload ==
    \/ UploadPage
    \/ handleFiles
    \/ handleRemove
    \/ handleClearAll
    \/ handleUpload
    \/ handleUploadResponse

SpecUpload == Init /\ [][NextUpload]_vars

-----------------------------------------------------------------------------
(* Properties of the review state machine *)

\* C1: in every reachable state of the Document Record (and of the copy a
\* page holds), status = needs_review exactly when review_questions is
\* non-empty, and status = ok exactly when it is empty.
C1_StatusMatchesQuestions ==
    /\ db # << >> =>
          /\ db[1].status \in {"ok", "needs_review"}
          /\ (db[1].status = "needs_review") <=> (db[1].review_questions # << >>)
    /\ \A t \in DOMAIN page : page[t].invoice # << >> =>
          ((page[t].invoice[1].status = "needs_review")
              <=> (page[t].invoice[1].review_questions # << >>))

\* a record approved as-is while its vendor is still missing, then marked paid
C1_Witness ==
    /\ db # << >>
    /\ db[1].status = "ok" /\ db[1].review_questions = << >>
    /\ db[1].vendor = NoText /\ db[1].is_paid = "true"

\* C2: "Approve as-is" posts the empty answer mapping, and resolve with the
\* empty mapping ends with status = ok and no review questions whatever the
\* deficiencies were, without validating and without touching another field.
C2_ApproveAsIsForcesOk ==
    [][\A t \in DOMAIN page : handleSkipReview(t) =>
          /\ db'[1].status = "ok"
          /\ db'[1].review_questions = << >>
          /\ [db'[1] EXCEPT !.status = "ok", !.review_reason = << >>, !.review_questions = << >>]
               = [db[1] EXCEPT !.status = "ok", !.review_reason = << >>, !.review_questions = << >>]
          /\ page'[t].toast.title = "Invoice approved"]_vars

\* approved while the vendor is missing and the VAT status is still ambiguous
C2_Witness ==
    /\ db # << >>
    /\ \E t \in DOMAIN page : page[t].toast.title = "Invoice approved"
    /\ db[1].status = "ok"
    /\ db[1].vendor = NoText
    /\ db[1].tax_amount = NoAmount /\ db[1].vat_inclusive = "null"

C5_StaleResolveNeverCommits ==
    [][\A t \in DOMAIN page :
          (/\ page[t].invoice # << >>
           /\ page[t].invoice # << Fetched(db[1]) >>
           /\ \/ handleSkipReview(t)
              \/ handleSubmitReview(t) /\ Keys(filledAnswers(page[t])) # {}) =>
          db' = db]_vars

C7_NetIsTaxed ==
    [][\A t \in DOMAIN page :
          LET body == filledAnswers(page[t])
              A == IF "amount" \in Keys(body) THEN body["amount"].n ELSE db[1].amount
              tax == db'[1].tax_amount
          IN  (/\ handleSubmitReview(t)
               /\ page'[t].toast.title = "Invoice updated"
               /\ "vat_inclusive" \in Keys(body)
               /\ body["vat_inclusive"] \in {VBool(FALSE), VStr("false")}) =>
                 /\ A >= 0
                 /\ db'[1].amount = A
                 /\ 100 * tax <= 5 * A + 50
                 /\ 5 * A + 50 < 100 * (tax + 1)
                 /\ db'[1].vat_inclusive = "false"]_vars

\* net 0.10 resolved as VAT exclusive: the half fils of tax is rounded up
C7_Witness ==
    /\ db # << >>
    /\ \E t \in DOMAIN page : page[t].toast.title = "Invoice updated"
    /\ db[1].vat_inclusive = "false"
    /\ db[1].amount = 10 /\ db[1].tax_amount = 1

C9_ResolveOnOkIsNoOp ==
    [][\A t \in DOMAIN page :
          (/\ db # << >>
           /\ db[1].status = "ok"
           /\ \/ handleSkipReview(t)
              \/ handleSubmitReview(t) /\ Keys(filledAnswers(page[t])) # {}) =>
          db' = db]_vars

\* both tabs answered VAT inclusive for gross 1000.00; one resolve made the
\* record ok, the same answers sent again left 952.38 / 47.62 in place
C9_Witness ==
    /\ db # << >>
    /\ db[1].status = "ok" /\ db[1].vat_inclusive = "true"
    /\ db[1].amount = 95238 /\ db[1].tax_amount = 4762
    /\ \E t, u \in DOMAIN page :
          /\ page[t].toast.title = "Invoice updated"
          /\ page[u].toast.title = "Error"
          /\ page[u].answers["vat_inclusive"] = VBool(TRUE)
          /\ filledAnswers(page[u])["amount"] = VNum(100000)

C14_OneQuestionPerDeficiency ==
    [][((db = << >> /\ db' # << >>)
          \/ \E t \in DOMAIN page :
                handleSubmitReview(t) /\ page'[t].toast.title = "Invoice updated") =>
          LET r == db'[1]
              low(f, present) == IF f \in r.low_confidence /\ present THEN << f >> ELSE << >>
              expected ==
                    (IF r.vendor = NoText THEN << "vendor" >> ELSE << >>)
                 \o (IF r.amount = NoAmount THEN << "amount" >> ELSE << >>)
                 \o (IF r.date = NoText THEN << "date" >> ELSE << >>)
                 \o (IF r.tax_amount = NoAmount /\ r.vat_inclusive = "null"
                     THEN << "vat_inclusive" >> ELSE << >>)
                 \o low("vendor", r.vendor # NoText)
                 \o low("amount", r.amount # NoAmount)
                 \o low("date", r.date # NoText)
                 \o (IF r.category = NoText THEN << "category" >> ELSE << >>)
          IN  /\ [i \in 1..Len(r.review_questions) |-> r.review_questions[i].field_name]
                    = expected
              /\ Len(r.review_reason) = Len(expected)
              /\ (expected = << >>) <=> (r.status = "ok")]_vars

\* a document with a low-confidence amount, no VAT status and no category:
\* three questions, in priority order
C14_Witness ==
    /\ db # << >>
    /\ db[1].status = "needs_review"
    /\ [i \in 1..Len(db[1].review_questions) |-> db[1].review_questions[i].field_name]
          = << "vat_inclusive", "amount", "category" >>
    /\ db[1].review_questions[2].input_type = "confirm_or_correct"

C16_VatAnswerCarriesAmount ==
    [][\A t \in DOMAIN page :
          (handleSubmitReview(t) /\ "vat_inclusive" \in Keys(filledAnswers(page[t]))) =>
             "amount" \in Keys(filledAnswers(page[t]))]_vars

\* C17: no entry of the recurring list has a vendor name that contains an
\* exclusion keyword, whatever the case it is written in, even when the
\* invoices of that vendor are exactly one month apart.
C17_NoExcludedVendor ==
    dash # NoDashboard =>
       \A i \in 1..Len(dash[1].recurring) : \A k \in DOMAIN EXCLUDE_KEYWORDS :
          ~includes(toLowerCase(dash[1].recurring[i].vendor), EXCLUDE_KEYWORDS[k])

\* "VISA Centre" was invoiced on 5 January and on 5 February, "DEWA" on the
\* last day of December and of January: only the second is listed
C17_Witness ==
    /\ dash # NoDashboard
    /\ {dash[1].invoices[i].id : i \in 1..Len(dash[1].invoices)} = {6, 7, 8, 9}
    /\ Len(dash[1].recurring) = 1
    /\ dash[1].recurring[1].vendor = "DEWA"

\* C18: a vendor is listed at most once, and it is listed exactly when it is
\* not excluded and every two date-adjacent invoices of its selected group
\* are 25 to 38 days apart: one gap outside that range and the vendor is not
\* listed at all. In particular a vendor with exactly two invoices, on
\* matching days and 25 to 38 days apart, is listed with those two.
C18_EveryGapIsOneMonth ==
    dash # NoDashboard =>
       LET counted == SelectSeq(dash[1].invoices, IsCounted)
           vendors == vendorKeys(counted)
       IN  \A v \in 1..Len(vendors) :
              LET invs == vendorInvoices(counted, vendors[v])
                  listed == {i \in 1..Len(dash[1].recurring) :
                               vendorKey(dash[1].recurring[i]) = vendors[v]}
                  group == selectedGroup(invs)
                  gaps == {getTime(group[j].date) - getTime(group[j - 1].date) :
                              j \in 2..Len(group)}
                  excluded == \E k \in DOMAIN EXCLUDE_KEYWORDS :
                                 includes(vendors[v], EXCLUDE_KEYWORDS[k])
              IN  /\ Cardinality(listed) <= 1
                  /\ (listed # {}) <=>
                        (~excluded /\ Len(group) >= 2 /\ gaps \subseteq 25..38)
                  /\ (/\ Len(invs) = 2 /\ ~excluded
                      /\ Abs(getDate(invs[1].date) - getDate(invs[2].date)) <= 1
                      /\ Abs(getTime(invs[1].date) - getTime(invs[2].date)) \in 25..38) =>
                        \E i \in listed : dash[1].recurring[i].frequency = 2

\* "DEWA" was invoiced on 31 January and 31 March (60 days apart), "Office
\* Rent" on 30 January and 29 February: only the second is listed
C18_Witness ==
    /\ dash # NoDashboard
    /\ {dash[1].invoices[i].id : i \in 1..Len(dash[1].invoices)} = {9, 10, 12, 13}
    /\ Len(dash[1].recurring) = 1
    /\ dash[1].recurring[1].vendor = "Office Rent"
    /\ dash[1].recurring[1].frequency = 2

\* C19: a vendor invoiced on the 1st of three consecutive months, and on no
\* other day, is listed exactly once, with frequency 3; with a fourth
\* invoice 50 days after the third it is still listed once with frequency 3
\* and the third invoice as the last one: the fourth is not in the group.
C19_ThreeMonthsOnTheFirst ==
    dash # NoDashboard =>
       LET counted == SelectSeq(dash[1].invoices, IsCounted)
           vendors == vendorKeys(counted)
       IN  \A v \in 1..Len(vendors) :
              LET sorted == sortByDate(vendorInvoices(counted, vendors[v]))
                  listed == {i \in 1..Len(dash[1].recurring) :
                               vendorKey(dash[1].recurring[i]) = vendors[v]}
              IN  (/\ Len(sorted) \in {3, 4}
                   /\ \A j \in 1..3 : getDate(sorted[j].date) = 1
                   /\ sorted[2].date = addMonths(sorted[1].date, 1)
                   /\ sorted[3].date = addMonths(sorted[2].date, 1)
                   /\ Len(sorted) = 4 =>
                         getTime(sorted[4].date) = getTime(sorted[3].date) + 50) =>
                    /\ Cardinality(listed) = 1
                    /\ \A i \in listed :
                          /\ dash[1].recurring[i].frequency = 3
                          /\ dash[1].recurring[i].dayOfMonth = 1
                          /\ dash[1].recurring[i].lastDate = sorted[3].date
                    /\ Len(vendors) = 1 => Len(dash[1].recurring) = 1

\* the invoices of 1 January, 1 February, 1 March and 20 April of one
\* vendor: one entry, three occurrences, last on 1 March
C19_Witness ==
    /\ dash # NoDashboard
    /\ {dash[1].invoices[i].id : i \in 1..Len(dash[1].invoices)} = {1, 2, 3, 4}
    /\ Len(dash[1].recurring) = 1
    /\ dash[1].recurring[1].frequency = 3
    /\ dash[1].recurring[1].lastDate = Day(2024, 3, 1)

\* C20: the next expected date of every entry is after the day of the
\* analysis, falls on the entry's day of the month, and is the first such
\* date: no date on that day of the month lies between the two.
C20_NextExpectedIsNextOccurrence ==
    dash # NoDashboard =>
       \A i \in 1..Len(dash[1].recurring) :
          LET entry == dash[1].recurring[i]
              now == dash[1].now
              months == {addMonths([now EXCEPT !.d = 1], k) : k \in 0..2}
              occurrences == {[mo EXCEPT !.d = entry.dayOfMonth] :
                                 mo \in {x \in months :
                                            entry.dayOfMonth <= DaysInMonth(x.y, x.m)}}
          IN  /\ getTime(entry.nextExpected) > getTime(now)
              /\ getDate(entry.nextExpected) = entry.dayOfMonth
              /\ \A o \in occurrences :
                    getTime(o) > getTime(now) => getTime(entry.nextExpected) <= getTime(o)

\* C21: the recurring list is in ascending order of next expected date: of
\* two consecutive entries the first is not expected after the second.
C21_SortedByNextExpected ==
    dash # NoDashboard =>
       \A i \in 1..(Len(dash[1].recurring) - 1) :
          getTime(dash[1].recurring[i].nextExpected)
             <= getTime(dash[1].recurring[i + 1].nextExpected)

\* on 10 April "Etisalat" (first in the list of invoices, due 1 May) comes
\* after "Office Rent" (due 30 April)
C21_Witness ==
    /\ dash # NoDashboard
    /\ {dash[1].invoices[i].id : i \in 1..Len(dash[1].invoices)} = {1, 2, 12, 13}
    /\ Len(dash[1].recurring) = 2
    /\ dash[1].recurring[1].vendor = "Office Rent"
    /\ dash[1].recurring[1].nextExpected = Day(2024, 4, 30)
    /\ dash[1].recurring[2].vendor = "Etisalat"
    /\ dash[1].recurring[2].nextExpected = Day(2024, 5, 1)

\* C22: the type label has no part in what is listed: the same invoices with
\* any other categories give a list with the same vendors, days of the
\* month, frequencies, amounts and dates, in the same order; only the type
\* and the category of an entry may differ.
C22_LabelsDoNotAffectInclusion ==
    dash # NoDashboard =>
       \A labels \in [1..Len(dash[1].invoices) -> CategoryLabels] :
          LET other == analyzeRecurringExpenses(Relabelled(dash[1].invoices, labels),
                                                dash[1].now)
          IN  /\ Len(other) = Len(dash[1].recurring)
              /\ \A i \in 1..Len(other) :
                    WithoutLabels(other[i]) = WithoutLabels(dash[1].recurring[i])

\* "Office Rent" is listed as rent; with the category "Legal & Insurance" on
\* its invoices it is listed as insurance
C22_Witness ==
    /\ dash # NoDashboard
    /\ Len(dash[1].invoices) = 2
    /\ Len(dash[1].recurring) = 1
    /\ dash[1].recurring[1].vendor = "Office Rent"
    /\ dash[1].recurring[1].type = "rent"
    /\ LET other == analyzeRecurringExpenses(
                        Relabelled(dash[1].invoices, [i \in 1..2 |-> "Legal & Insurance"]),
                        dash[1].now)
       IN  Len(other) = 1 /\ other[1].type = "insurance"

C24_DayGroupsWithinOneDay ==
    dash # NoDashboard =>
       LET counted == SelectSeq(dash[1].invoices, IsCounted)
           vendors == vendorKeys(counted)
       IN  \A v \in 1..Len(vendors) :
              LET sorted == sortByDate(vendorInvoices(counted, vendors[v]))
                  groups == dayGroups(sorted, 1, NoDayGroups)
                  days == {k \in DOMAIN groups : groups[k] # << >>}
                  group == selectedGroup(sorted)
              IN  /\ \A i \in 1..Len(sorted) :
                        Cardinality({k \in days :
                                       \E m \in 1..Len(groups[k]) :
                                          groups[k][m] = sorted[i]}) = 1
                  /\ \A k \in days :
                        /\ getDate(groups[k][1].date) = k
                        /\ \A m \in 1..Len(groups[k]) :
                              Abs(getDate(groups[k][m].date) - k) <= 1
                  /\ \A k \in days : \A j \in days : k # j => Abs(k - j) >= 2
                  /\ \A i \in 1..Len(dash[1].recurring) :
                        vendorKey(dash[1].recurring[i]) = vendors[v] =>
                           /\ getDate(group[1].date) = dash[1].recurring[i].dayOfMonth
                           /\ \A m \in 1..Len(group) :
                                 Abs(getDate(group[m].date)
                                        - dash[1].recurring[i].dayOfMonth) <= 1

\* "Office Rent" was invoiced on 30 January and 29 February: one group, of
\* day 30, which the invoice of the 29th has joined
C24_Witness ==
    /\ dash # NoDashboard
    /\ {dash[1].invoices[i].id : i \in 1..Len(dash[1].invoices)} = {12, 13}
    /\ Len(dash[1].recurring) = 1
    /\ dash[1].recurring[1].dayOfMonth = 30
    /\ dash[1].recurring[1].lastDate = Day(2024, 2, 29)

\* C25: a vendor (its invoices taken together whatever the case and the
\* outer spaces its name is written with) is listed at most once; a listed
\* vendor has at least 2 occurrences, as many as its largest day group has
\* members, and its day is the day of a largest group; a vendor with fewer
\* than 2 invoices or with no day group of 2 is not listed.
C25_LargestDayGroupOnly ==
    dash # NoDashboard =>
       LET counted == SelectSeq(dash[1].invoices, IsCounted)
           vendors == vendorKeys(counted)
       IN  /\ \A i \in 1..Len(dash[1].recurring) :
                \E v \in 1..Len(vendors) : vendorKey(dash[1].recurring[i]) = vendors[v]
           /\ \A v \in 1..Len(vendors) :
                LET invs == vendorInvoices(counted, vendors[v])
                    groups == dayGroups(sortByDate(invs), 1, NoDayGroups)
                    largest == CHOOSE n \in {Len(groups[k]) : k \in DOMAIN groups} :
                                  \A k \in DOMAIN groups : Len(groups[k]) <= n
                    listed == {i \in 1..Len(dash[1].recurring) :
                                 vendorKey(dash[1].recurring[i]) = vendors[v]}
                IN  /\ Cardinality(listed) <= 1
                    /\ \A i \in listed :
                          /\ dash[1].recurring[i].frequency >= 2
                          /\ dash[1].recurring[i].frequency = largest
                          /\ Len(groups[dash[1].recurring[i].dayOfMonth]) = largest
                    /\ (Len(invs) < 2 \/ largest < 2) => listed = {}

\* "Etisalat", written in two ways, with three invoices on the 1st and two
\* on the 20th: one entry, for the 1st, with three occurrences
C25_Witness ==
    /\ dash # NoDashboard
    /\ {dash[1].invoices[i].id : i \in 1..Len(dash[1].invoices)} = {1, 2, 3, 4, 14}
    /\ Len(dash[1].recurring) = 1
    /\ dash[1].recurring[1].dayOfMonth = 1
    /\ dash[1].recurring[1].frequency = 3

\* C26: a payment-flag update made on the invoices list changes nothing but
\* the payment flag of the rows with the id of one displayed invoice and of
\* the record of that id in the backend: every other field of that invoice
\* (status and review questions included), every other invoice, and the
\* filters, the page number and the page size stay as they were; after a
\* failed request the list and the record are as before.
C26_PaymentEditIsNarrow ==
    [][ (list # NoList /\ list' # NoList
          /\ list'[1].paymentEdits # list[1].paymentEdits) =>
        LET old == list[1].invoices
            new == list'[1].invoices
            changed == {i \in DOMAIN old : new[i] # old[i]}
        IN  /\ DOMAIN new = DOMAIN old
            /\ \A i \in DOMAIN old : [new[i] EXCEPT !.is_paid = old[i].is_paid] = old[i]
            /\ \A i, j \in changed : old[i].id = old[j].id /\ new[i].is_paid = new[j].is_paid
            /\ \A i \in changed :
                  /\ new[i].is_paid \in {"true", "false"}
                  /\ \E r \in DOMAIN paginatedInvoices(list[1]) :
                        paginatedInvoices(list[1])[r].id = old[i].id
            /\ [list'[1] EXCEPT !.invoices = old, !.paymentEdits = list[1].paymentEdits,
                                !.consoleError = list[1].consoleError] = list[1]
            /\ Len(db') = Len(db)
            /\ db # << >> =>
                  /\ [db'[1] EXCEPT !.is_paid = db[1].is_paid] = db[1]
                  /\ db'[1] # db[1] =>
                        \E i \in DOMAIN new : new[i].id = RecordId
                                               /\ new[i].is_paid = db'[1].is_paid
            /\ list'[1].consoleError # list[1].consoleError => (new = old /\ db' = db)
            /\ UNCHANGED <<page, task, dash, upload>> ]_vars

\* the record under review, listed as unpaid-unknown and needing review, has
\* been marked paid from the list; it still needs review and has its questions
C26_Witness ==
    /\ list # NoList /\ list[1].paymentEdits = 1 /\ list[1].consoleError = NoText
    /\ Len(list[1].invoices) = 3
    /\ list[1].invoices[RecordId].is_paid = "true"
    /\ list[1].invoices[RecordId].status = "needs_review"
    /\ list[1].invoices[3].is_paid = "1"
    /\ db # << >> /\ db[1].is_paid = "true" /\ db[1].status = "needs_review"
    /\ db[1].review_questions # << >>

\* C30: on the invoices list the current page is never beyond the last page
\* of the filtered list: when the filtered list is not empty, the displayed
\* page has at least one invoice.
C30_DisplayedPageIsNotEmpty ==
    (list # NoList /\ tableIsShown(list[1])) =>
        /\ list[1].currentPage <= totalPages(list[1])
        /\ Len(paginatedInvoices(list[1])) >= 1

\* C27: every key of the answers that "Submit Answers" sends is the
\* field_name of one of the review questions of the invoice the page shows.
C27_SentKeysAreQuestions ==
    [][\A t \in DOMAIN page :
          (handleSubmitReview(t) /\ Keys(filledAnswers(page[t])) # {}) =>
             \A f \in Keys(filledAnswers(page[t])) :
                \E i \in 1..Len(page[t].invoice[1].review_questions) :
                   page[t].invoice[1].review_questions[i].field_name = f]_vars

\* C28: every value the page holds for a review question, when it is not
\* empty, is sent by "Submit Answers" unchanged under the question's
\* field_name, whatever other questions are answered with it.
C28_EnteredValuesAreSent ==
    [][\A t \in DOMAIN page :
          (handleSubmitReview(t) /\ Keys(filledAnswers(page[t])) # {}) =>
             \A i \in 1..Len(page[t].invoice[1].review_questions) :
                LET f == page[t].invoice[1].review_questions[i].field_name
                    entered == page[t].answers[f]
                IN  (entered.t \notin {"undefined", "null"} /\ entered # VStr("")) =>
                       filledAnswers(page[t])[f] = entered]_vars

\* C29: on the upload page the status of a file only goes from pending to
\* uploading and from uploading to success or error; a file becomes success
\* only on a response that is OK to the request that carried it; a file that
\* fails validation (extension not allowed, more than 20MB) starts as error,
\* any other file as pending, and only pending files are put in a request.
C29_UploadStatusFlow ==
    [][ (upload # NoUpload /\ upload' # NoUpload) =>
        LET old == upload[1].files
            new == upload'[1].files
            ext(f) == "." \o toLowerCase(lastSegment(f.file.name))
            invalid(f) == \/ \A i \in DOMAIN ALLOWED_EXTENSIONS : ALLOWED_EXTENSIONS[i] # ext(f)
                          \/ f.file.size > MAX_FILE_SIZE
        IN  /\ \A j \in DOMAIN new :
                  IF \E i \in DOMAIN old : old[i].id = new[j].id
                  THEN \A i \in DOMAIN old : old[i].id = new[j].id =>
                          /\ new[j].file = old[i].file
                          /\ \/ new[j].status = old[i].status
                             \/ old[i].status = "pending" /\ new[j].status = "uploading"
                             \/ old[i].status = "uploading" /\ new[j].status \in {"success", "error"}
                          /\ (new[j].status = "success" /\ old[i].status # "success") =>
                                /\ upload'[1].response = "ok"
                                /\ old[i].id \in upload[1].request
                  ELSE new[j].status = IF invalid(new[j]) THEN "error" ELSE "pending"
            /\ \A id \in upload'[1].request \ upload[1].request :
                  \E i \in DOMAIN old : old[i].id = id /\ old[i].status = "pending"
                                         /\ ~ invalid(old[i]) ]_vars

====
